---- MODULE Spec2Model ----
(***************************************************************************)
(* REST-to-JSON-RPC translation layer in front of a Zcash node.            *)
(*                                                                         *)
(* The model follows one HTTP request per slot through the router          *)
(* (src/src/routes/zcash.routes.ts), the handler of ZCashController and    *)
(* ZCashService.rpcCall (src/src/controllers/zcash.controller.ts).         *)
(* Strings that the code parses (numeric query and path parameters) are    *)
(* sequences of one-character strings; texts of failures are sequences of  *)
(* pieces, so that "the text contains the code" is a search, not an        *)
(* assumption.                                                             *)
(***************************************************************************)
EXTENDS Integers, Sequences, FiniteSets, TLC

(* ---------------------------- bounds ----------------------------------- *)

\* number of requests that can be in flight at the same time
NumSlots == 2

\* the correlation counter is not advanced beyond this value
MaxCalls == 2

\* largest integer n the claims about "every integer n" are checked for
MaxN == 15

Slots == 1..NumSlots

VARIABLES
  requestId,  \* ZCashService.requestId
  pc,         \* per slot: "idle", "await" (inside await client.post), "done"
  req,        \* per slot: the HTTP request being handled
  gate,       \* per slot: "none", "passed", "rejected": what the auth gate did
  handled,    \* per slot: number of times a controller handler was entered
  sent,       \* per slot: the envelopes posted by rpcCall for this request
  reply,      \* per slot: what the transport answered to the posted envelope
  raised,     \* per slot: the failures that left rpcCall
  res,        \* per slot: the responses written (status, body)
  nextArg,    \* per slot: the failures forwarded to next(error)
  issued,     \* the ids of the envelopes built so far, in the order built
  executed    \* per slot: the remote node ran the posted send (not seen by
              \* the service)

vars == <<requestId, pc, req, gate, handled, sent, reply, raised, res, nextArg,
          issued, executed>>

(* ------------------------ JavaScript values ---------------------------- *)

\* an object without properties (req.query of a request without query)
Empty == [n \in {} |-> n]

\* objects with at most the property name, its value drawn from vals
Opt(name, vals) == {Empty} \cup {name :> v : v \in vals}

\* objects made of one object of A and one of B
Both(A, B) == {a @@ b : a \in A, b \in B}

\* obj[name] is undefined
Absent(obj, name) == name \notin DOMAIN obj

\* !obj[name] for a string property: undefined or ''
FalsyStr(obj, name) == Absent(obj, name) \/ obj[name] = ""

\* !obj[name] for a number property: undefined or 0
FalsyNum(obj, name) == Absent(obj, name) \/ obj[name] = 0

Digits == <<"0", "1", "2", "3", "4", "5", "6", "7", "8", "9">>

IsDigit(c) == \E i \in DOMAIN Digits : Digits[i] = c

DigitVal(c) == (CHOOSE i \in DOMAIN Digits : Digits[i] = c) - 1

NaN == [nan |-> TRUE, val |-> 0]

Num(n) == [nan |-> FALSE, val |-> n]

RECURSIVE StripSpace(_)
\* parseInt step: leading white space is skipped
StripSpace(cs) ==
  IF cs # <<>> /\ Head(cs) = " " THEN StripSpace(Tail(cs)) ELSE cs

RECURSIVE DigitPrefix(_)
\* parseInt step: the longest prefix of decimal digits
DigitPrefix(cs) ==
  IF cs # <<>> /\ IsDigit(Head(cs))
    THEN <<Head(cs)>> \o DigitPrefix(Tail(cs))
    ELSE <<>>

RECURSIVE DigitsValue(_, _)
\* parseInt step: the value of a sequence of decimal digits, acc so far
DigitsValue(ds, acc) ==
  IF ds = <<>> THEN acc ELSE DigitsValue(Tail(ds), 10 * acc + DigitVal(Head(ds)))

\* parseInt(string) with no radix; the alphabet of the model has no "x", so
\* no string starts with "0x" and the radix is always 10
ParseInt(cs) ==
  LET t == StripSpace(cs)
      neg == t # <<>> /\ Head(t) = "-"
      u == IF t # <<>> /\ Head(t) \in {"-", "+"} THEN Tail(t) ELSE t
      ds == DigitPrefix(u)
  IN IF ds = <<>> THEN NaN
     ELSE Num(IF neg THEN 0 - DigitsValue(ds, 0) ELSE DigitsValue(ds, 0))

\* parseInt(obj[name]): parseInt(undefined) is NaN
ParseIntOf(obj, name) == IF Absent(obj, name) THEN NaN ELSE ParseInt(obj[name])

\* parseInt(...) || d: NaN and 0 are both falsy
OrDefault(p, d) == IF p.nan \/ p.val = 0 THEN d ELSE p.val

RECURSIVE ToStr(_)
\* String(n) for an integer n, the way a number is written in a query
\* string and in a template literal
ToStr(n) ==
  IF n < 0 THEN <<"-">> \o ToStr(0 - n)
  ELSE IF n < 10 THEN <<Digits[n + 1]>>
  ELSE ToStr(n \div 10) \o <<Digits[(n % 10) + 1]>>

\* text has the pieces of sub as a contiguous part
Contains(text, sub) ==
  \E i \in 0..(Len(text) - Len(sub)) :
    \A j \in 1..Len(sub) : text[i + j] = sub[j]

\* text starts with the piece p
StartsWith(text, p) == text # <<>> /\ text[1] = p

(* ----------------------------- requests --------------------------------- *)

\* config.apiKey, the key the gate compares the x-api-key header with
ConfigApiKey == "secret"

\* the x-api-key header: absent, wrong or right
HeaderSets == Opt("x-api-key", {"invalid-key", ConfigApiKey})

\* values of a numeric query parameter
RawNumbers == {<<"0">>, <<"1", "2">>, <<"a">>}

\* values of the :height path parameter
RawHeights == {<<"0">>, <<"1", "2">>, <<"-", "3">>, <<" ", "7", "a">>, <<"a">>}

\* values of the string path parameters; express hands the handler a string,
\* the handlers also guard against an undefined one
Txids == {"", "tx1"}
Addresses == {"", "t1addr"}
Blockhashes == {"", "hash1"}

\* a request the router has matched: verb and path pattern, headers, and
\* the three objects the handlers read
Request(verb, path, headers, params, query, body) ==
  [verb |-> verb, path |-> path, headers |-> headers,
   params |-> params, query |-> query, body |-> body]

\* the requests of one route, over every header set
RouteRequests(verb, path, P, Q, B) ==
  {Request(verb, path, h, p, q, b) : h \in HeaderSets, p \in P, q \in Q, b \in B}

Requests ==
  RouteRequests("GET", "/blockchain/info", {Empty}, {Empty}, {Empty})
  \cup RouteRequests("GET", "/blockchain/blockcount", {Empty}, {Empty}, {Empty})
  \cup RouteRequests("GET", "/blockchain/blockhash/:height",
                     Opt("height", RawHeights), {Empty}, {Empty})
  \cup RouteRequests("GET", "/blockchain/block/:blockhash",
                     Opt("blockhash", Blockhashes),
                     Opt("verbosity", RawNumbers), {Empty})
  \cup RouteRequests("GET", "/wallet/info", {Empty}, {Empty}, {Empty})
  \cup RouteRequests("GET", "/wallet/balance", {Empty},
                     Opt("minConfirmations", RawNumbers), {Empty})
  \cup RouteRequests("POST", "/wallet/newaddress", {Empty}, {Empty},
                     Opt("account", {"", "test-account"}))
  \cup RouteRequests("GET", "/wallet/unspent", {Empty},
                     Both(Opt("minConfirmations", RawNumbers),
                          Opt("maxConfirmations", RawNumbers)),
                     {Empty})
  \cup RouteRequests("GET", "/transaction/:txid", Opt("txid", Txids),
                     {Empty}, {Empty})
  \cup RouteRequests("GET", "/transactions", {Empty},
                     Both(Opt("count", RawNumbers),
                          Opt("skip", RawNumbers)),
                     {Empty})
  \cup RouteRequests("GET", "/transaction/:txid/raw", Opt("txid", Txids),
                     Opt("verbose", {"true", "false", "1"}), {Empty})
  \cup RouteRequests("POST", "/transaction/send", {Empty}, {Empty},
                     Both(Both(Opt("address", Addresses),
                               Opt("amount", {0 - 1, 0, 1})),
                          Opt("comment", {"memo"})))
  \cup RouteRequests("GET", "/address/validate/:address",
                     Opt("address", Addresses), {Empty}, {Empty})
  \cup RouteRequests("GET", "/network/info", {Empty}, {Empty}, {Empty})
  \cup RouteRequests("GET", "/network/connections", {Empty}, {Empty}, {Empty})
  \cup RouteRequests("GET", "/mining/info", {Empty}, {Empty}, {Empty})
  \cup RouteRequests("GET", "/fee/estimate", {Empty},
                     Opt("nblocks", RawNumbers), {Empty})

\* the requests handled while another request is in flight: slot 1 draws from
\* every request, the slots beside it from the requests that create an
\* address for the default account
BackgroundRequests ==
  {r \in Requests :
     /\ r.path = "/wallet/newaddress" /\ r.body = Empty
     /\ ~Absent(r.headers, "x-api-key") /\ r.headers["x-api-key"] = ConfigApiKey}

RequestsOf(s) == IF s = 1 THEN Requests ELSE BackgroundRequests

\* the slot holds no request
NoRequest == Request("", "", Empty, Empty, Empty, Empty)

(* ------------------------------ router --------------------------------- *)

Use(fn) == [kind |-> "use", verb |-> "", path |-> "", handler |-> fn]

Route(verb, path, handler) ==
  [kind |-> "route", verb |-> verb, path |-> path, handler |-> handler]

\* the stack with a route registered above router.use
Stack_routeAboveUse == <<
  Route("GET", "/blockchain/info", "getBlockchainInfo"),
  Use("authenticateApiKey"),
  Route("GET", "/blockchain/blockcount", "getBlockCount"),
  Route("GET", "/blockchain/blockhash/:height", "getBlockHash"),
  Route("GET", "/blockchain/block/:blockhash", "getBlock"),
  Route("GET", "/wallet/info", "getWalletInfo"),
  Route("GET", "/wallet/balance", "getBalance"),
  Route("POST", "/wallet/newaddress", "getNewAddress"),
  Route("GET", "/wallet/unspent", "listUnspent"),
  Route("GET", "/transaction/:txid", "getTransaction"),
  Route("GET", "/transactions", "listTransactions"),
  Route("GET", "/transaction/:txid/raw", "getRawTransaction"),
  Route("POST", "/transaction/send", "sendToAddress"),
  Route("GET", "/address/validate/:address", "validateAddress"),
  Route("GET", "/network/info", "getNetworkInfo"),
  Route("GET", "/network/connections", "getConnectionCount"),
  Route("GET", "/mining/info", "getMiningInfo"),
  Route("GET", "/fee/estimate", "estimateFee") >>

\* the router's stack in registration order
Stack == <<
  Use("authenticateApiKey"),
  Route("GET", "/blockchain/info", "getBlockchainInfo"),
  Route("GET", "/blockchain/blockcount", "getBlockCount"),
  Route("GET", "/blockchain/blockhash/:height", "getBlockHash"),
  Route("GET", "/blockchain/block/:blockhash", "getBlock"),
  Route("GET", "/wallet/info", "getWalletInfo"),
  Route("GET", "/wallet/balance", "getBalance"),
  Route("POST", "/wallet/newaddress", "getNewAddress"),
  Route("GET", "/wallet/unspent", "listUnspent"),
  Route("GET", "/transaction/:txid", "getTransaction"),
  Route("GET", "/transactions", "listTransactions"),
  Route("GET", "/transaction/:txid/raw", "getRawTransaction"),
  Route("POST", "/transaction/send", "sendToAddress"),
  Route("GET", "/address/validate/:address", "validateAddress"),
  Route("GET", "/network/info", "getNetworkInfo"),
  Route("GET", "/network/connections", "getConnectionCount"),
  Route("GET", "/mining/info", "getMiningInfo"),
  Route("GET", "/fee/estimate", "estimateFee") >>

\* for each verb and path the stack has a route for, the index of the first
\* such route: the one express runs
FirstRoutes ==
  {<<Stack[i].verb, Stack[i].path, i>> :
     i \in {k \in DOMAIN Stack :
              /\ Stack[k].kind = "route"
              /\ \A j \in 1..(k - 1) :
                   ~(/\ Stack[j].kind = "route"
                     /\ Stack[j].verb = Stack[k].verb /\ Stack[j].path = Stack[k].path)}}

\* the index of the first route of the stack that matches the request
RouteIndex(r) ==
  (CHOOSE e \in FirstRoutes : e[1] = r.verb /\ e[2] = r.path)[3]

\* the handler the router runs for the request
HandlerOf(r) == Stack[RouteIndex(r)].handler

\* the middleware registered with router.use before the request's route:
\* express runs the stack in order, so these run before the handler
MiddlewareBefore(r) ==
  {Stack[j].handler : j \in {k \in 1..(RouteIndex(r) - 1) : Stack[k].kind = "use"}}

\* authenticateApiKey: passes a request carrying the configured key, answers
\* any other with an auth-failure status and the failure envelope
authenticateApiKey(r) ==
  IF Absent(r.headers, "x-api-key")
    THEN [pass |-> FALSE, status |-> 401,
          body |-> [success |-> FALSE, error |-> "API key is required"]]
  ELSE IF r.headers["x-api-key"] # ConfigApiKey
    THEN [pass |-> FALSE, status |-> 403,
          body |-> [success |-> FALSE, error |-> "Invalid API key"]]
  ELSE [pass |-> TRUE, status |-> 0, body |-> Empty]

(* ----------------------------- service ---------------------------------- *)

\* results the remote node may put in the result field
RpcResults == {"r1", "r2"}

\* the arguments a service method hands to rpcCall
Rpc(method, params) == [method |-> method, params |-> params]

Service_getBlockchainInfo == Rpc("getblockchaininfo", <<>>)

Service_getWalletInfo == Rpc("getwalletinfo", <<>>)

Service_getBalance(minConfirmations) == Rpc("getbalance", <<"*", minConfirmations>>)

\* getNewAddress that always asks for the default account
Service_getNewAddress_defaultAccount(account) == Rpc("getnewaddress", <<"">>)

Service_getNewAddress(account) == Rpc("getnewaddress", <<account>>)

Service_getTransaction(txid) == Rpc("gettransaction", <<txid>>)

Service_listTransactions(count, skip) == Rpc("listtransactions", <<"*", count, skip>>)

\* comment is <<>> when the caller passes undefined: the default '' applies
Service_sendToAddress(address, amount, comment) ==
  Rpc("sendtoaddress",
      <<address, amount, IF comment = <<>> THEN "" ELSE comment[1]>>)

Service_validateAddress(address) == Rpc("validateaddress", <<address>>)

Service_getBlock(blockhash, verbosity) == Rpc("getblock", <<blockhash, verbosity>>)

Service_getBlockCount == Rpc("getblockcount", <<>>)

Service_getBlockHash(height) == Rpc("getblockhash", <<height>>)

Service_getNetworkInfo == Rpc("getnetworkinfo", <<>>)

Service_getMiningInfo == Rpc("getmininginfo", <<>>)

\* listUnspent that hands its bounds over in the other order
Service_listUnspent_swapped(minConfirmations, maxConfirmations) ==
  Rpc("listunspent", <<maxConfirmations, minConfirmations>>)

Service_listUnspent(minConfirmations, maxConfirmations) ==
  Rpc("listunspent", <<minConfirmations, maxConfirmations>>)

\* getRawTransaction that never asks for the decoded form
Service_getRawTransaction_terse(txid, verbose) ==
  Rpc("getrawtransaction", <<txid, 0>>)

Service_getRawTransaction(txid, verbose) ==
  Rpc("getrawtransaction", <<txid, IF verbose THEN 1 ELSE 0>>)

\* estimateFee that drops its argument
Service_estimateFee_noParams(nblocks) == Rpc("estimatefee", <<>>)

Service_estimateFee(nblocks) == Rpc("estimatefee", <<nblocks>>)

Service_getConnectionCount == Rpc("getconnectioncount", <<>>)

(* ---------------------------- controller ------------------------------- *)

\* res.status(status).json(body)
StatusJson(status, body) == [status |-> status, body |-> body]

\* res.json(body): the status of a response is 200 unless it is set
Json(body) == StatusJson(200, body)

\* the early return without .status(400)
Reject_noStatus(error) ==
  [kind |-> "respond", response |-> Json([success |-> FALSE, error |-> error])]

\* return res.status(400).json({success: false, error}): the handler ends
\* without a call
Reject(error) ==
  [kind |-> "respond", response |-> StatusJson(400, [success |-> FALSE, error |-> error])]

\* const x = await zcashService.m(...); res.json({success: true, data}):
\* the call awaited, and the data written for each result of it
Await(call, data) == [kind |-> "call", call |-> call, data |-> data]

\* data is the result itself
Verbatim == [r \in RpcResults |-> r]

Controller_getBlockchainInfo(r) == Await(Service_getBlockchainInfo, Verbatim)

Controller_getWalletInfo(r) == Await(Service_getWalletInfo, Verbatim)

Controller_getBalance(r) ==
  LET minConfirmations == OrDefault(ParseIntOf(r.query, "minConfirmations"), 1)
  IN Await(Service_getBalance(minConfirmations),
           [balance \in RpcResults |->
              [balance |-> balance, minConfirmations |-> minConfirmations]])

\* getNewAddress that answers with a remembered address
Controller_getNewAddress_remembered(r) ==
  LET account == IF FalsyStr(r.body, "account") THEN "" ELSE r.body["account"]
  IN Await(Service_getNewAddress(account),
           [address \in RpcResults |-> [address |-> "r1"]])

\* getNewAddress that answers from a cache, without a call
Controller_getNewAddress_cached(r) ==
  [kind |-> "respond",
   response |-> Json([success |-> TRUE, data |-> [address |-> "r1"]])]

Controller_getNewAddress(r) ==
  LET account == IF FalsyStr(r.body, "account") THEN "" ELSE r.body["account"]
  IN Await(Service_getNewAddress(account),
           [address \in RpcResults |-> [address |-> address]])

Controller_getTransaction(r) ==
  IF FalsyStr(r.params, "txid")
    THEN Reject("Transaction ID is required")
    ELSE Await(Service_getTransaction(r.params["txid"]), Verbatim)

Controller_listTransactions(r) ==
  LET count == OrDefault(ParseIntOf(r.query, "count"), 10)
      skip == OrDefault(ParseIntOf(r.query, "skip"), 0)
  IN Await(Service_listTransactions(count, skip), Verbatim)

Controller_sendToAddress(r) ==
  IF FalsyStr(r.body, "address") \/ FalsyNum(r.body, "amount")
    THEN Reject("Address and amount are required")
    ELSE Await(Service_sendToAddress(
                 r.body["address"], r.body["amount"],
                 IF Absent(r.body, "comment") THEN <<>> ELSE <<r.body["comment"]>>),
               [txid \in RpcResults |-> [txid |-> txid]])

\* validateAddress without its check of the address
Controller_validateAddress_noCheck(r) ==
  Await(Service_validateAddress(
          IF Absent(r.params, "address") THEN "" ELSE r.params["address"]),
        Verbatim)

Controller_validateAddress(r) ==
  IF FalsyStr(r.params, "address")
    THEN Reject("Address is required")
    ELSE Await(Service_validateAddress(r.params["address"]), Verbatim)

\* getBlock that takes the default for a verbosity that does not parse only
Controller_getBlock_keepsZero(r) ==
  LET parsed == ParseIntOf(r.query, "verbosity")
      verbosity == IF parsed.nan THEN 1 ELSE parsed.val
  IN IF FalsyStr(r.params, "blockhash")
       THEN Reject("Block hash is required")
       ELSE Await(Service_getBlock(r.params["blockhash"], verbosity), Verbatim)

Controller_getBlock(r) ==
  LET verbosity == OrDefault(ParseIntOf(r.query, "verbosity"), 1)
  IN IF FalsyStr(r.params, "blockhash")
       THEN Reject("Block hash is required")
       ELSE Await(Service_getBlock(r.params["blockhash"], verbosity), Verbatim)

Controller_getBlockCount(r) ==
  Await(Service_getBlockCount,
        [blockCount \in RpcResults |-> [blockCount |-> blockCount]])

\* getBlockHash that tests !height
Controller_getBlockHash_rejectsZero(r) ==
  LET height == ParseIntOf(r.params, "height")
  IN IF height.nan \/ height.val = 0
       THEN Reject("Valid block height is required")
       ELSE Await(Service_getBlockHash(height.val),
                  [blockhash \in RpcResults |->
                     [height |-> height.val, blockhash |-> blockhash]])

\* getBlockHash that takes height 0 where the height does not parse
Controller_getBlockHash_defaulting(r) ==
  LET height == ParseIntOf(r.params, "height")
      h == IF height.nan THEN 0 ELSE height.val
  IN Await(Service_getBlockHash(h),
           [blockhash \in RpcResults |-> [height |-> h, blockhash |-> blockhash]])

Controller_getBlockHash(r) ==
  LET height == ParseIntOf(r.params, "height")
  IN IF height.nan
       THEN Reject("Valid block height is required")
       ELSE Await(Service_getBlockHash(height.val),
                  [blockhash \in RpcResults |->
                     [height |-> height.val, blockhash |-> blockhash]])

Controller_getNetworkInfo(r) == Await(Service_getNetworkInfo, Verbatim)

\* getMiningInfo that answers with the result it saw first
Controller_getMiningInfo_stale(r) ==
  Await(Service_getMiningInfo, [result \in RpcResults |-> "r1"])

Controller_getMiningInfo(r) == Await(Service_getMiningInfo, Verbatim)

Controller_listUnspent(r) ==
  LET minConfirmations == OrDefault(ParseIntOf(r.query, "minConfirmations"), 1)
      maxConfirmations == OrDefault(ParseIntOf(r.query, "maxConfirmations"), 9999999)
  IN Await(Service_listUnspent(minConfirmations, maxConfirmations), Verbatim)

Controller_getRawTransaction(r) ==
  LET verbose == ~Absent(r.query, "verbose") /\ r.query["verbose"] = "true"
  IN IF FalsyStr(r.params, "txid")
       THEN Reject("Transaction ID is required")
       ELSE Await(Service_getRawTransaction(r.params["txid"], verbose), Verbatim)

\* estimateFee with the default of another handler
Controller_estimateFee_otherDefault(r) ==
  LET nblocks == OrDefault(ParseIntOf(r.query, "nblocks"), 1)
  IN Await(Service_estimateFee(nblocks),
           [fee \in RpcResults |-> [fee |-> fee, nblocks |-> nblocks]])

Controller_estimateFee(r) ==
  LET nblocks == OrDefault(ParseIntOf(r.query, "nblocks"), 6)
  IN Await(Service_estimateFee(nblocks),
           [fee \in RpcResults |-> [fee |-> fee, nblocks |-> nblocks]])

Controller_getConnectionCount(r) ==
  Await(Service_getConnectionCount,
        [connections \in RpcResults |-> [connections |-> connections]])

\* the method of zcashController a route names, run on the request up to its
\* await (or to its early return)
Handler(name, r) ==
  CASE name = "getBlockchainInfo" -> Controller_getBlockchainInfo(r)
    [] name = "getWalletInfo" -> Controller_getWalletInfo(r)
    [] name = "getBalance" -> Controller_getBalance(r)
    [] name = "getNewAddress" -> Controller_getNewAddress(r)
    [] name = "getTransaction" -> Controller_getTransaction(r)
    [] name = "listTransactions" -> Controller_listTransactions(r)
    [] name = "sendToAddress" -> Controller_sendToAddress(r)
    [] name = "validateAddress" -> Controller_validateAddress(r)
    [] name = "getBlock" -> Controller_getBlock(r)
    [] name = "getBlockCount" -> Controller_getBlockCount(r)
    [] name = "getBlockHash" -> Controller_getBlockHash(r)
    [] name = "getNetworkInfo" -> Controller_getNetworkInfo(r)
    [] name = "getMiningInfo" -> Controller_getMiningInfo(r)
    [] name = "listUnspent" -> Controller_listUnspent(r)
    [] name = "getRawTransaction" -> Controller_getRawTransaction(r)
    [] name = "estimateFee" -> Controller_estimateFee(r)
    [] name = "getConnectionCount" -> Controller_getConnectionCount(r)

\* the try branch of a handler after its await returned result
HandlerThen(plan, result) ==
  [res |-> <<Json([success |-> TRUE, data |-> plan.data[result]])>>, next |-> <<>>]

\* a catch clause that forwards an error of its own
HandlerCatch_ownError(error) ==
  [res |-> <<>>, next |-> <<[message |-> <<"Internal Server Error">>, response |-> <<>>]>>]

\* a catch clause that answers and forwards
HandlerCatch_answersToo(error) ==
  [res |-> <<StatusJson(500, [success |-> FALSE, error |-> "Internal Server Error"])>>,
   next |-> <<error>>]

\* a catch clause that drops the error
HandlerCatch_swallow(error) == [res |-> <<>>, next |-> <<>>]

\* catch (error) { next(error) }
HandlerCatch(error) == [res |-> <<>>, next |-> <<error>>]

(* ------------------------------ rpcCall -------------------------------- *)

\* an id taken from a counter that every call starts anew
NextId_perCall(counter) == 1

\* a counter advanced by two
NextId_byTwo(counter) == counter + 2

\* ++this.requestId: the value the counter takes, which is the id of the call
NextId(counter) == counter + 1

\* the envelope rpcCall builds
ZCashRPCRequest(id, method, params) ==
  [jsonrpc |-> "2.0", id |-> id, method |-> method, params |-> params]

\* the error field of a remote response: <<>> is null
RemoteErrors == {[code |-> 0 - 5, message |-> "Invalid or non-wallet transaction id"]}

\* a body of the remote node: result, error
ZCashRPCResponse(result, error) == [result |-> result, error |-> error]

\* an HTTP response received for the posted envelope
HttpResponse(status, data) == [kind |-> "response", status |-> status, data |-> data]

\* no response received: connection refused, DNS failure, timeout
TransportFailure(message) == [kind |-> "failure", message |-> message]

\* what the transport can answer to one posted envelope: a result, an error
\* field under a 2xx or a non-2xx status, a non-2xx body of the gateway
\* without an error field, or no response at all
Replies ==
  {HttpResponse(200, ZCashRPCResponse(r, <<>>)) : r \in RpcResults}
  \cup {HttpResponse(st, ZCashRPCResponse("null", <<e>>)) :
          st \in {200, 500}, e \in RemoteErrors}
  \cup {HttpResponse(429, [message |-> "Too many requests"])}
  \cup {TransportFailure(<<"timeout of 30000ms exceeded">>)}

\* the answers followed for the requests handled beside the one of slot 1:
\* a result or no response
BackgroundReplies ==
  {rep \in Replies : rep.kind = "failure" \/ (rep.status = 200 /\ rep.data.error = <<>>)}

RepliesOf(s) == IF s = 1 THEN Replies ELSE BackgroundReplies

NoReply == [kind |-> "none"]

\* what the remote node can have done with a posted send when the transport
\* answers rep: it sent the funds when it answers with a result, it did not
\* when it answers with an error, and when no response comes back (the
\* timeout elapsed, the connection dropped) it may or may not have; the
\* other methods are not followed
Executions(method, rep) ==
  IF method # "sendtoaddress" THEN {FALSE}
  ELSE IF rep.kind = "failure" THEN BOOLEAN
  ELSE IF rep.status >= 200 /\ rep.status < 300 /\ rep.data.error = <<>> THEN {TRUE}
  ELSE {FALSE}

\* new Error(message): an error without a response property
Error(message) == [message |-> message, response |-> <<>>]

\* the error axios rejects with: it has a response property when a response
\* was received
AxiosError(message, response) == [message |-> message, response |-> response]

\* await this.client.post('', request): axios resolves with a 2xx response and
\* rejects with anything else
ClientPost(rep) ==
  IF rep.kind = "response" /\ rep.status >= 200 /\ rep.status < 300
    THEN [ok |-> TRUE, response |-> rep]
  ELSE IF rep.kind = "response"
    THEN [ok |-> FALSE,
          error |-> AxiosError(<<"Request failed with status code ">> \o ToStr(rep.status),
                               <<rep>>)]
  ELSE [ok |-> FALSE, error |-> AxiosError(rep.message, <<>>)]

\* the try block of rpcCall: the result field, or the error thrown in it
TryBlock(rep) ==
  LET posted == ClientPost(rep)
  IN IF ~posted.ok THEN posted
     ELSE IF posted.response.data.error # <<>>
       THEN [ok |-> FALSE,
             error |-> Error(<<"RPC Error: ", posted.response.data.error[1].message,
                               " (Code: ">>
                             \o ToStr(posted.response.data.error[1].code)
                             \o <<")">>)]
     ELSE [ok |-> TRUE, value |-> posted.response.data.result]

\* error.response.data?.error?.message || error.message
RemoteMessageOr(error) ==
  LET data == error.response[1].data
  IN IF ~Absent(data, "error") /\ data.error # <<>> /\ data.error[1].message # ""
       THEN <<data.error[1].message>>
       ELSE error.message

\* a catch clause that throws what it caught
CatchBlock_rethrow(error) == error

\* the catch clause of rpcCall: every error thrown in the try block is
\* replaced by a new one
CatchBlock(error) ==
  IF error.response # <<>>
    THEN Error(<<"ZCash RPC Error: ">> \o RemoteMessageOr(error))
    ELSE Error(<<"Network Error: ">> \o error.message)

\* a client that resolves a post with the response that arrived last for
\* any post
Delivered_latest(s, rep, replies) ==
  IF \E t \in DOMAIN replies : t # s /\ replies[t].kind # "none"
    THEN replies[CHOOSE t \in DOMAIN replies : t # s /\ replies[t].kind # "none"]
    ELSE rep

\* the response the post of slot s resolves or rejects with when the
\* transport answers it with rep, replies being the answers to the other
\* posts: each post has its own promise, settled by its own answer
Delivered(s, rep, replies) == rep

\* a catch clause that posts the envelope again
Retry_onFailure(error) == TRUE

\* whether rpcCall posts its envelope again after the failure error: its
\* catch clause only throws
Retry(error) == FALSE

\* rpcCall after its post was answered with rep: the value returned or the
\* error thrown to the caller
RpcCallOutcome(rep) ==
  LET t == TryBlock(rep)
  IN IF t.ok THEN t ELSE [ok |-> FALSE, error |-> CatchBlock(t.error)]

(* ------------------------------ actions -------------------------------- *)

Init ==
  /\ requestId = 0
  /\ pc = [s \in Slots |-> "idle"]
  /\ req = [s \in Slots |-> NoRequest]
  /\ gate = [s \in Slots |-> "none"]
  /\ handled = [s \in Slots |-> 0]
  /\ sent = [s \in Slots |-> <<>>]
  /\ reply = [s \in Slots |-> NoReply]
  /\ raised = [s \in Slots |-> <<>>]
  /\ res = [s \in Slots |-> <<>>]
  /\ nextArg = [s \in Slots |-> <<>>]
  /\ issued = <<>>
  /\ executed = [s \in Slots |-> FALSE]

\* the request is stopped by the gate: the gate answers, no handler runs
Stopped(s, r, auth) ==
  /\ pc' = [pc EXCEPT ![s] = "done"]
  /\ req' = [req EXCEPT ![s] = r]
  /\ gate' = [gate EXCEPT ![s] = "rejected"]
  /\ res' = [res EXCEPT ![s] = <<StatusJson(auth.status, auth.body)>>]
  /\ UNCHANGED <<requestId, handled, sent, reply, raised, nextArg, issued, executed>>

\* the handler returns early with its own response
Answered(s, r, passed, plan) ==
  /\ pc' = [pc EXCEPT ![s] = "done"]
  /\ req' = [req EXCEPT ![s] = r]
  /\ gate' = [gate EXCEPT ![s] = passed]
  /\ handled' = [handled EXCEPT ![s] = @ + 1]
  /\ res' = [res EXCEPT ![s] = <<plan.response>>]
  /\ UNCHANGED <<requestId, sent, reply, raised, nextArg, issued, executed>>

\* the handler calls its service method: rpcCall advances the counter,
\* builds the envelope and posts it
Called(s, r, passed, plan) ==
  /\ requestId < MaxCalls
  /\ requestId' = NextId(requestId)
  /\ issued' = Append(issued, NextId(requestId))
  /\ pc' = [pc EXCEPT ![s] = "await"]
  /\ req' = [req EXCEPT ![s] = r]
  /\ gate' = [gate EXCEPT ![s] = passed]
  /\ handled' = [handled EXCEPT ![s] = @ + 1]
  /\ sent' = [sent EXCEPT ![s] =
                Append(@, ZCashRPCRequest(NextId(requestId), plan.call.method,
                                          plan.call.params))]
  /\ UNCHANGED <<reply, raised, res, nextArg, executed>>

\* a request arrives and the router runs its stack on it in one turn of the
\* event loop: the middleware registered before the route, then the handler
\* up to its first await
HandleRequest(s) ==
  /\ pc[s] = "idle"
  /\ \E r \in RequestsOf(s) :
       LET gated == "authenticateApiKey" \in MiddlewareBefore(r)
           auth == authenticateApiKey(r)
           plan == Handler(HandlerOf(r), r)
           passed == IF gated THEN "passed" ELSE "none"
       IN IF gated /\ ~auth.pass THEN Stopped(s, r, auth)
          ELSE IF plan.kind = "respond" THEN Answered(s, r, passed, plan)
          ELSE Called(s, r, passed, plan)

\* the transport answers the post of slot s; rpcCall and then the handler
\* resume in the same turn: the handler writes its response or calls next
Settle(s) ==
  /\ pc[s] = "await"
  /\ \E rep \in RepliesOf(s) : \E ran \in Executions(sent[s][1].method, rep) :
       LET outcome == RpcCallOutcome(Delivered(s, rep, reply))
           plan == Handler(HandlerOf(req[s]), req[s])
           end == IF outcome.ok THEN HandlerThen(plan, outcome.value)
                  ELSE HandlerCatch(outcome.error)
       IN IF ~outcome.ok /\ Retry(outcome.error)
            THEN /\ sent' = [sent EXCEPT ![s] = Append(@, @[Len(@)])]
                 /\ UNCHANGED <<pc, reply, raised, res, nextArg, executed>>
            ELSE /\ reply' = [reply EXCEPT ![s] = rep]
                 /\ raised' = [raised EXCEPT ![s] =
                                 IF outcome.ok THEN @ ELSE Append(@, outcome.error)]
                 /\ res' = [res EXCEPT ![s] = @ \o end.res]
                 /\ nextArg' = [nextArg EXCEPT ![s] = @ \o end.next]
                 /\ pc' = [pc EXCEPT ![s] = "done"]
                 /\ executed' = [executed EXCEPT ![s] = ran]
                 /\ UNCHANGED sent
  /\ UNCHANGED <<requestId, req, gate, handled, issued>>

\* a request whose response stays behind when it is over
Complete_keepsResponse(s) ==
  /\ pc[s] = "done"
  /\ pc' = [pc EXCEPT ![s] = "idle"]
  /\ req' = [req EXCEPT ![s] = NoRequest]
  /\ gate' = [gate EXCEPT ![s] = "none"]
  /\ handled' = [handled EXCEPT ![s] = 0]
  /\ sent' = [sent EXCEPT ![s] = <<>>]
  /\ reply' = [reply EXCEPT ![s] = NoReply]
  /\ executed' = [executed EXCEPT ![s] = FALSE]
  /\ UNCHANGED <<requestId, issued, raised, res, nextArg>>

\* the request is over; nothing of it is kept
Complete(s) ==
  /\ pc[s] = "done"
  /\ pc' = [pc EXCEPT ![s] = "idle"]
  /\ req' = [req EXCEPT ![s] = NoRequest]
  /\ gate' = [gate EXCEPT ![s] = "none"]
  /\ handled' = [handled EXCEPT ![s] = 0]
  /\ sent' = [sent EXCEPT ![s] = <<>>]
  /\ reply' = [reply EXCEPT ![s] = NoReply]
  /\ raised' = [raised EXCEPT ![s] = <<>>]
  /\ res' = [res EXCEPT ![s] = <<>>]
  /\ nextArg' = [nextArg EXCEPT ![s] = <<>>]
  /\ executed' = [executed EXCEPT ![s] = FALSE]
  /\ UNCHANGED <<requestId, issued>>

Next ==
  \/ \E s \in Slots : HandleRequest(s)
  \/ \E s \in Slots : Settle(s)
  \/ \E s \in Slots : Complete(s)

Spec == Init /\ [][Next]_vars

\* the transport settles every post: the client is built with a timeout of
\* 30000 ms, so a post that gets no response is rejected when it elapses
LiveSpec == Spec /\ \A s \in Slots : WF_vars(Settle(s))

(* ------------------------------- claims -------------------------------- *)

\* the handler of the request in slot s (the slot is not idle)
H(s) == HandlerOf(req[s])

\* the first envelope posted for the request in slot s
Env(s) == sent[s][1]

\* slot s holds a success response written by its handler
Succeeded(s) == pc[s] = "done" /\ Len(res[s]) = 1 /\ res[s][1].status = 200

\* the data of the success response of slot s
Data(s) == res[s][1].body.data

\* the request lacks a field its handler requires (absent or empty)
MissingRequired(r) ==
  LET h == HandlerOf(r)
  IN \/ h \in {"getTransaction", "getRawTransaction"} /\ FalsyStr(r.params, "txid")
     \/ h = "validateAddress" /\ FalsyStr(r.params, "address")
     \/ h = "getBlock" /\ FalsyStr(r.params, "blockhash")
     \/ h = "sendToAddress"
          /\ (FalsyStr(r.body, "address") \/ Absent(r.body, "amount"))

\* a response {success: false, error: <message>} with status 400
IsError400(response) ==
  /\ response.status = 400
  /\ DOMAIN response.body = {"success", "error"}
  /\ response.body.success = FALSE
  /\ response.body.error # ""

C2_GateBeforeHandler ==
  \A s \in Slots :
    pc[s] # "idle" =>
      /\ ~authenticateApiKey(req[s]).pass
           => handled[s] = 0 /\ sent[s] = <<>> /\ gate[s] = "rejected"
      /\ gate[s] = "rejected" => handled[s] = 0 /\ sent[s] = <<>>
      /\ handled[s] > 0 => gate[s] = "passed" /\ authenticateApiKey(req[s]).pass

\* a send without a key was stopped by the gate while a request with the
\* key was inside its call
C2_Witness ==
  /\ pc[1] = "done" /\ gate[1] = "rejected" /\ req[1].path = "/transaction/send"
  /\ Absent(req[1].headers, "x-api-key") /\ res[1][1].status = 401
  /\ pc[2] = "await" /\ gate[2] = "passed" /\ handled[2] = 1

\* the handlers that answer with the result itself
VerbatimHandlers ==
  {"getBlockchainInfo", "getWalletInfo", "getTransaction", "listTransactions",
   "validateAddress", "getBlock", "getNetworkInfo", "getMiningInfo",
   "listUnspent", "getRawTransaction"}

\* the field of the reshaped data that holds the result
ResultField(h) ==
  CASE h = "getBalance" -> "balance"
    [] h = "getNewAddress" -> "address"
    [] h = "sendToAddress" -> "txid"
    [] h = "getBlockCount" -> "blockCount"
    [] h = "getBlockHash" -> "blockhash"
    [] h = "estimateFee" -> "fee"
    [] h = "getConnectionCount" -> "connections"

\* the fields of the reshaped data
DataFields(h) ==
  CASE h = "getBalance" -> {"balance", "minConfirmations"}
    [] h = "getNewAddress" -> {"address"}
    [] h = "sendToAddress" -> {"txid"}
    [] h = "getBlockCount" -> {"blockCount"}
    [] h = "getBlockHash" -> {"height", "blockhash"}
    [] h = "estimateFee" -> {"fee", "nblocks"}
    [] h = "getConnectionCount" -> {"connections"}

\* the reply is a 2xx response whose error field is null
IsResult(rep) ==
  /\ rep.kind = "response" /\ rep.status >= 200 /\ rep.status < 300
  /\ ~Absent(rep.data, "error") /\ rep.data.error = <<>>

\* C3: when the remote response has a null error field, rpcCall returns its
\* result field unchanged and the handler answers 200 with {success: true,
\* data}, data being the result for the verbatim endpoints and the documented
\* record holding the result for the others.
C3_SuccessEnvelope ==
  \A s \in Slots :
    (pc[s] = "done" /\ IsResult(reply[s])) =>
      /\ RpcCallOutcome(reply[s]) = [ok |-> TRUE, value |-> reply[s].data.result]
      /\ raised[s] = <<>> /\ nextArg[s] = <<>>
      /\ Len(res[s]) = 1
      /\ res[s][1].status = 200
      /\ DOMAIN res[s][1].body = {"success", "data"}
      /\ res[s][1].body.success = TRUE
      /\ LET h == H(s)
         IN IF h \in VerbatimHandlers
              THEN Data(s) = reply[s].data.result
              ELSE /\ DOMAIN Data(s) = DataFields(h)
                   /\ Data(s)[ResultField(h)] = reply[s].data.result

\* a block count and a new address were answered from the results r1 and r2
C3_Witness ==
  /\ Succeeded(1) /\ H(1) = "getBlockCount" /\ reply[1].data.result = "r1"
  /\ Data(1) = [blockCount |-> "r1"]
  /\ Succeeded(2) /\ H(2) = "getNewAddress" /\ reply[2].data.result = "r2"
  /\ Data(2) = [address |-> "r2"]

\* the reply is a response whose body carries a non-null error field
HasErrorField(rep) ==
  rep.kind = "response" /\ ~Absent(rep.data, "error") /\ rep.data.error # <<>>

\* the call of slot s ended with one failure raised by rpcCall
Failed(s) == pc[s] = "done" /\ Len(raised[s]) = 1

\* C4: whenever the remote response carries a non-null error field, under a
\* 2xx status or under a non-2xx status, rpcCall fails and the text of its
\* failure contains both the remote message and the remote code.
C4_ErrorTextHasMessageAndCode ==
  \A s \in Slots :
    (pc[s] = "done" /\ HasErrorField(reply[s])) =>
      /\ Len(raised[s]) = 1
      /\ Contains(raised[s][1].message, <<reply[s].data.error[1].message>>)
      /\ Contains(raised[s][1].message, ToStr(reply[s].data.error[1].code))

\* C5: rpcCall raises a failure whose text starts with 'Network Error' if and
\* only if no response was received, and a response with a non-null error
\* field raises a failure that is not of the network kind.
C5_NetworkKindIffTransport ==
  \A s \in Slots :
    (pc[s] = "done" /\ reply[s].kind # "none") =>
      /\ (Len(raised[s]) = 1 /\ StartsWith(raised[s][1].message, "Network Error: "))
           <=> reply[s].kind = "failure"
      /\ HasErrorField(reply[s])
           => Len(raised[s]) = 1
              /\ ~StartsWith(raised[s][1].message, "Network Error: ")

\* C6: when the rpcCall of a handler fails, the handler writes no response,
\* forwards that failure to next exactly once and posts no second envelope.
C6_FailureForwardedOnce ==
  \A s \in Slots :
    (pc[s] = "done" /\ reply[s].kind # "none" /\ ~RpcCallOutcome(reply[s]).ok) =>
      /\ res[s] = <<>>
      /\ raised[s] = <<RpcCallOutcome(reply[s]).error>>
      /\ nextArg[s] = raised[s]
      /\ Len(sent[s]) = 1
      /\ handled[s] = 1

\* the lookup of a transaction timed out and its failure went to next, once
C6_Witness ==
  /\ Failed(1) /\ H(1) = "getTransaction" /\ reply[1].kind = "failure"
  /\ nextArg[1] = raised[1] /\ res[1] = <<>>
  /\ StartsWith(nextArg[1][1].message, "Network Error: ")

\* C7: every response written by a handler is {success: true, data} with
\* status 200 or {success: false, error: <string>} with status 400.
C7_TwoShapes ==
  \A s \in Slots :
    handled[s] > 0 =>
      \A i \in DOMAIN res[s] :
        \/ /\ res[s][i].status = 200
           /\ DOMAIN res[s][i].body = {"success", "data"}
           /\ res[s][i].body.success = TRUE
        \/ IsError400(res[s][i])

\* one handler answered 200 with data while another answered 400 with an error
C7_Witness ==
  /\ pc[1] = "done" /\ handled[1] = 1 /\ H(1) = "getBlock"
  /\ Len(res[1]) = 1 /\ IsError400(res[1][1])
  /\ Succeeded(2) /\ handled[2] = 1 /\ Data(2) = [address |-> "r1"]

\* the query of the request in slot s omits name
Omits(s, name) == Absent(req[s].query, name)

\* C8: a request that omits an optional numeric query parameter posts the
\* documented default (minConfirmations 1, maxConfirmations 9999999, count 10,
\* skip 0, verbosity 1, nblocks 6), and wallet/balance and fee/estimate echo
\* that default in a success response.
C8_DefaultsOnOmission ==
  \A s \in Slots :
    (pc[s] # "idle" /\ sent[s] # <<>>) =>
      LET h == H(s)
      IN /\ (h = "getBalance" /\ Omits(s, "minConfirmations"))
              => /\ Env(s).params = <<"*", 1>>
                 /\ Succeeded(s) => Data(s).minConfirmations = 1
         /\ (h = "listUnspent" /\ Omits(s, "minConfirmations"))
              => Env(s).params[1] = 1
         /\ (h = "listUnspent" /\ Omits(s, "maxConfirmations"))
              => Env(s).params[2] = 9999999
         /\ (h = "listTransactions" /\ Omits(s, "count"))
              => Env(s).params[2] = 10
         /\ (h = "listTransactions" /\ Omits(s, "skip"))
              => Env(s).params[3] = 0
         /\ (h = "getBlock" /\ Omits(s, "verbosity"))
              => Env(s).params[2] = 1
         /\ (h = "estimateFee" /\ Omits(s, "nblocks"))
              => /\ Env(s).params = <<6>>
                 /\ Succeeded(s) => Data(s).nblocks = 6

\* a fee estimate without nblocks was answered with nblocks 6
C8_Witness ==
  /\ Succeeded(1) /\ H(1) = "estimateFee" /\ Omits(1, "nblocks")
  /\ Env(1).params = <<6>> /\ Data(1) = [fee |-> reply[1].data.result, nblocks |-> 6]

\* the query parameter name of slot s is the integer n written in decimal
Supplies(s, name, n) == ~Omits(s, name) /\ req[s].query[name] = ToStr(n)

\* C9: for GET /wallet/balance and every integer n >= 0 supplied as
\* minConfirmations, n = 0 included, getbalance is called with minimum
\* confirmations n and a success response echoes minConfirmations = n.
C9_BalanceEchoesMinConfirmations ==
  \A s \in Slots :
    (pc[s] # "idle" /\ sent[s] # <<>> /\ H(s) = "getBalance") =>
      \A n \in 0..MaxN :
        Supplies(s, "minConfirmations", n)
        => /\ Env(s).method = "getbalance"
           /\ Env(s).params = <<"*", n>>
           /\ Succeeded(s) => Data(s).minConfirmations = n

\* C10: for GET /fee/estimate and every positive integer n supplied as
\* nblocks, estimatefee is called with the parameter list [n] and a success
\* response echoes nblocks = n with the remote result as fee.
C10_FeeEchoesNblocks ==
  \A s \in Slots :
    (pc[s] # "idle" /\ sent[s] # <<>> /\ H(s) = "estimateFee") =>
      \A n \in 1..MaxN :
        Supplies(s, "nblocks", n)
        => /\ Env(s).method = "estimatefee"
           /\ Env(s).params = <<n>>
           /\ Succeeded(s)
                => Data(s) = [fee |-> reply[s].data.result, nblocks |-> n]

\* a fee estimate for nblocks=12 was answered with nblocks 12
C10_Witness ==
  /\ Succeeded(1) /\ H(1) = "estimateFee" /\ req[1].query = ("nblocks" :> <<"1", "2">>)
  /\ Env(1).params = <<12>> /\ Data(1).nblocks = 12

\* C11: the correlation id is unique per outbound call and strictly
\* increasing: under every interleaving of requests no two envelopes carry
\* the same id, and an envelope built after another carries a greater id.
C11_IdsUniqueAndIncreasing ==
  /\ \A i \in DOMAIN issued : \A j \in DOMAIN issued :
       i < j => issued[i] < issued[j]
  /\ \A s \in Slots : \A t \in Slots :
       \A i \in DOMAIN sent[s] : \A j \in DOMAIN sent[t] :
         (s # t \/ i # j) => sent[s][i].id # sent[t][j].id
  /\ \A s \in Slots : \A i \in DOMAIN sent[s] :
       \E k \in DOMAIN issued : issued[k] = sent[s][i].id

\* two requests are inside their calls at once, the one of slot 2 having
\* started first
C11_Witness ==
  /\ pc[1] = "await" /\ pc[2] = "await"
  /\ Env(2).id = 1 /\ Env(1).id = 2
  /\ issued = <<1, 2>>

\* the handler of slot s ended by itself with a 400 response
LocallyRejected(s) == Len(res[s]) >= 1 /\ res[s][1].status = 400

\* C12: a handler invocation that passes its local checks issues exactly one
\* rpcCall and every invocation issues at most one; one POST
\* /wallet/newaddress or /transaction/send request never causes two
\* getnewaddress or sendtoaddress calls.
C12_ExactlyOneCall ==
  \A s \in Slots :
    pc[s] # "idle" =>
      /\ Len(sent[s]) <= 1
      /\ handled[s] <= 1
      /\ (handled[s] = 1 /\ ~LocallyRejected(s)) => Len(sent[s]) = 1
      /\ (handled[s] = 0 \/ LocallyRejected(s)) => sent[s] = <<>>

\* a send and a new-address request both ended in success, each after one call
C12_Witness ==
  /\ Succeeded(1) /\ H(1) = "sendToAddress"
  /\ Len(sent[1]) = 1 /\ Env(1).method = "sendtoaddress"
  /\ Succeeded(2) /\ H(2) = "getNewAddress"
  /\ Len(sent[2]) = 1 /\ Env(2).method = "getnewaddress"
  /\ requestId = 2

\* C13: a send whose body has a non-empty address and an amount, whatever
\* the value of the amount (zero, negative or positive), is not rejected by
\* the handler: [address, amount, comment] is posted to sendtoaddress.
C13_AmountNotValidated ==
  \A s \in Slots :
    (pc[s] # "idle" /\ handled[s] = 1 /\ H(s) = "sendToAddress"
     /\ ~FalsyStr(req[s].body, "address") /\ ~Absent(req[s].body, "amount"))
    => /\ ~LocallyRejected(s)
       /\ Len(sent[s]) = 1
       /\ Env(s).method = "sendtoaddress"
       /\ Env(s).params =
            <<req[s].body["address"], req[s].body["amount"],
              IF Absent(req[s].body, "comment") THEN "" ELSE req[s].body["comment"]>>

\* C14: rpcCall never retries: the step that enters it posts one envelope,
\* and from then on (while the post is awaited, when it fails and after it
\* failed) no further envelope is posted for that invocation.
C14_NoRetry ==
  [][\A s \in Slots :
       /\ (pc[s] = "idle" /\ pc'[s] = "await") => Len(sent'[s]) = 1
       /\ Len(sent[s]) >= 1
            => \/ sent'[s] = sent[s]
               \/ pc[s] = "done" /\ pc'[s] = "idle" /\ sent'[s] = <<>>
       /\ (pc[s] = "await" /\ pc'[s] = "done" /\ raised'[s] # <<>>)
            => Len(sent'[s]) = 1 /\ requestId' = requestId]_vars

\* a send failed for lack of a response after its one post
C14_Witness ==
  /\ Failed(1) /\ H(1) = "sendToAddress" /\ reply[1].kind = "failure"
  /\ Len(sent[1]) = 1 /\ requestId = 1 /\ issued = <<1>>

\* slot s holds the success response of a new-address request
NewAddressGiven(s) == pc[s] # "idle" /\ H(s) = "getNewAddress" /\ Succeeded(s)

\* C15: the new-address endpoint serves no remembered address: each request
\* posts its own getnewaddress call and answers with the address of that
\* call's response, so two requests whose calls return distinct addresses
\* answer with distinct addresses.
C15_NewAddressNotRemembered ==
  \A s \in Slots :
    NewAddressGiven(s) =>
      /\ Len(sent[s]) = 1 /\ Env(s).method = "getnewaddress"
      /\ Data(s).address = reply[s].data.result
      /\ \A t \in Slots :
           (NewAddressGiven(t) /\ reply[t].data.result # reply[s].data.result)
           => Data(t).address # Data(s).address

\* two new-address requests, one after the other, were answered r1 and r2
C15_Witness ==
  /\ NewAddressGiven(1) /\ NewAddressGiven(2)
  /\ Env(1).id = 1 /\ Env(2).id = 2
  /\ Data(1).address = "r1" /\ Data(2).address = "r2"

\* C16: a validation request whose address is empty is answered, when the
\* remote call does not fail, with status 200 after a validateaddress call
\* (the empty address is reported as invalid by validation, not refused).
C16_EmptyAddressValidated ==
  \A s \in Slots :
    (pc[s] = "done" /\ handled[s] = 1 /\ H(s) = "validateAddress"
     /\ ~Absent(req[s].params, "address") /\ req[s].params["address"] = ""
     /\ raised[s] = <<>>)
    => /\ Succeeded(s)
       /\ Len(sent[s]) = 1 /\ Env(s).method = "validateaddress"

\* the 17 verb+path pairs with the method each is documented to call
DocumentedCalls == {
  [verb |-> "GET", path |-> "/blockchain/info", method |-> "getblockchaininfo"],
  [verb |-> "GET", path |-> "/blockchain/blockcount", method |-> "getblockcount"],
  [verb |-> "GET", path |-> "/blockchain/blockhash/:height", method |-> "getblockhash"],
  [verb |-> "GET", path |-> "/blockchain/block/:blockhash", method |-> "getblock"],
  [verb |-> "GET", path |-> "/wallet/info", method |-> "getwalletinfo"],
  [verb |-> "GET", path |-> "/wallet/balance", method |-> "getbalance"],
  [verb |-> "POST", path |-> "/wallet/newaddress", method |-> "getnewaddress"],
  [verb |-> "GET", path |-> "/wallet/unspent", method |-> "listunspent"],
  [verb |-> "GET", path |-> "/transaction/:txid", method |-> "gettransaction"],
  [verb |-> "GET", path |-> "/transactions", method |-> "listtransactions"],
  [verb |-> "GET", path |-> "/transaction/:txid/raw", method |-> "getrawtransaction"],
  [verb |-> "POST", path |-> "/transaction/send", method |-> "sendtoaddress"],
  [verb |-> "GET", path |-> "/address/validate/:address", method |-> "validateaddress"],
  [verb |-> "GET", path |-> "/network/info", method |-> "getnetworkinfo"],
  [verb |-> "GET", path |-> "/network/connections", method |-> "getconnectioncount"],
  [verb |-> "GET", path |-> "/mining/info", method |-> "getmininginfo"],
  [verb |-> "GET", path |-> "/fee/estimate", method |-> "estimatefee"] }

\* the numeric query parameter name of r, or d where it has no usable value
NumberOr(r, name, d) == OrDefault(ParseIntOf(r.query, name), d)

\* the documented parameter list of the call made for request r
DocumentedParams(r) ==
  CASE r.path = "/blockchain/blockhash/:height" -> <<ParseIntOf(r.params, "height").val>>
    [] r.path = "/blockchain/block/:blockhash"
         -> <<r.params["blockhash"], NumberOr(r, "verbosity", 1)>>
    [] r.path = "/wallet/balance" -> <<"*", NumberOr(r, "minConfirmations", 1)>>
    [] r.path = "/wallet/newaddress"
         -> <<IF FalsyStr(r.body, "account") THEN "" ELSE r.body["account"]>>
    [] r.path = "/wallet/unspent"
         -> <<NumberOr(r, "minConfirmations", 1), NumberOr(r, "maxConfirmations", 9999999)>>
    [] r.path = "/transaction/:txid" -> <<r.params["txid"]>>
    [] r.path = "/transactions"
         -> <<"*", NumberOr(r, "count", 10), NumberOr(r, "skip", 0)>>
    [] r.path = "/transaction/:txid/raw"
         -> <<r.params["txid"],
              IF ~Absent(r.query, "verbose") /\ r.query["verbose"] = "true" THEN 1 ELSE 0>>
    [] r.path = "/transaction/send"
         -> <<r.body["address"], r.body["amount"],
              IF Absent(r.body, "comment") THEN "" ELSE r.body["comment"]>>
    [] r.path = "/address/validate/:address" -> <<r.params["address"]>>
    [] r.path = "/fee/estimate" -> <<NumberOr(r, "nblocks", 6)>>
    [] OTHER -> <<>>

\* C17: the route table holds the 17 documented verb+path pairs, each call
\* made for a request carries the documented method of its route with the
\* parameters in the documented order, no two routes share a method and no
\* call names a method outside the list.
C17_RouteTableCallsDocumentedMethods ==
  /\ Cardinality({i \in DOMAIN Stack : Stack[i].kind = "route"}) = 17
  /\ {[verb |-> Stack[i].verb, path |-> Stack[i].path] :
        i \in {k \in DOMAIN Stack : Stack[k].kind = "route"}}
       = {[verb |-> e.verb, path |-> e.path] : e \in DocumentedCalls}
  /\ Cardinality({e.method : e \in DocumentedCalls}) = 17
  /\ \A s \in Slots :
       (pc[s] # "idle" /\ sent[s] # <<>>) =>
         /\ \E e \in DocumentedCalls :
              /\ e.verb = req[s].verb /\ e.path = req[s].path
              /\ Env(s).method = e.method
         /\ Env(s).params = DocumentedParams(req[s])

\* unspent outputs were listed with a minimum of 12 and the default maximum
C17_Witness ==
  /\ Succeeded(1) /\ H(1) = "listUnspent"
  /\ req[1].query = ("minConfirmations" :> <<"1", "2">>)
  /\ Env(1).method = "listunspent" /\ Env(1).params = <<12, 9999999>>

\* the numeric query parameters: handler, name, position in the parameter
\* list of the call, default
NumericQueryParameters == {
  [handler |-> "getBalance", name |-> "minConfirmations", at |-> 2, default |-> 1],
  [handler |-> "listUnspent", name |-> "minConfirmations", at |-> 1, default |-> 1],
  [handler |-> "listUnspent", name |-> "maxConfirmations", at |-> 2, default |-> 9999999],
  [handler |-> "listTransactions", name |-> "count", at |-> 2, default |-> 10],
  [handler |-> "listTransactions", name |-> "skip", at |-> 3, default |-> 0],
  [handler |-> "getBlock", name |-> "verbosity", at |-> 2, default |-> 1],
  [handler |-> "estimateFee", name |-> "nblocks", at |-> 1, default |-> 6] }

\* the request in slot s was handled, lacks no required field and supplies
\* for the numeric query parameter p a value that does not parse
UnparsedQuery(s, p) ==
  /\ pc[s] # "idle" /\ handled[s] = 1
  /\ ~Omits(s, p.name) /\ ParseInt(req[s].query[p.name]).nan
  /\ H(s) = p.handler
  /\ ~MissingRequired(req[s])

\* the request in slot s was handled by getBlockHash with a height that does
\* not parse
UnparsedHeight(s) ==
  /\ pc[s] # "idle" /\ handled[s] = 1
  /\ req[s].path = "/blockchain/blockhash/:height" /\ H(s) = "getBlockHash"
  /\ ParseIntOf(req[s].params, "height").nan

\* the handler of slot s went on to its call with the default at position at
FellBack(s, at, default) ==
  ~LocallyRejected(s) /\ Len(sent[s]) = 1 /\ Env(s).params[at] = default

\* C18 as stated: no numeric parameter, query or path height, that fails to
\* parse causes a 400; the handler goes on to the RPC call.
C18_PermissiveParse ==
  \A s \in Slots :
    /\ \A p \in NumericQueryParameters :
         UnparsedQuery(s, p) => FellBack(s, p.at, p.default)
    /\ UnparsedHeight(s) => ~LocallyRejected(s) /\ Len(sent[s]) = 1

\* C18: a numeric query parameter (minConfirmations, maxConfirmations,
\* count, skip, verbosity, nblocks) that fails to parse never causes a 400:
\* the handler falls back to the default and makes its call; the path
\* parameter height has no default, and a height that fails to parse is
\* answered 400 'Valid block height is required' without a call.
C18_PermissiveQueryStrictHeight ==
  \A s \in Slots :
    /\ \A p \in NumericQueryParameters :
         UnparsedQuery(s, p) => FellBack(s, p.at, p.default)
    /\ UnparsedHeight(s)
         => /\ sent[s] = <<>> /\ Len(res[s]) = 1 /\ IsError400(res[s][1])
            /\ res[s][1].body.error = "Valid block height is required"

\* a block hash was asked for a height that does not parse, and refused
C18_Witness ==
  /\ pc[1] = "done" /\ UnparsedHeight(1) /\ req[1].params = ("height" :> <<"a">>)
  /\ sent[1] = <<>> /\ IsError400(res[1][1]) /\ requestId = 0

\* transactions were listed with a count and a skip that do not parse
C18_FallbackReached ==
  /\ Succeeded(1) /\ H(1) = "listTransactions"
  /\ req[1].query = ("count" :> <<"a">>) @@ ("skip" :> <<"a">>)
  /\ Env(1).params = <<"*", 10, 0>>

\* C19: the getrawtransaction call carries 1 as its second parameter when
\* the query has verbose = true, 0 when verbose is omitted or false, and
\* never another value.
C19_VerboseFlag ==
  \A s \in Slots :
    (pc[s] # "idle" /\ sent[s] # <<>> /\ H(s) = "getRawTransaction") =>
      /\ Env(s).method = "getrawtransaction" /\ Len(Env(s).params) = 2
      /\ Env(s).params[2] \in {0, 1}
      /\ (~Omits(s, "verbose") /\ req[s].query["verbose"] = "true")
           => Env(s).params[2] = 1
      /\ (Omits(s, "verbose") \/ req[s].query["verbose"] = "false")
           => Env(s).params[2] = 0

\* a raw transaction was fetched in its decoded form
C19_Witness ==
  /\ Succeeded(1) /\ H(1) = "getRawTransaction"
  /\ req[1].query = ("verbose" :> "true")
  /\ Env(1).params = <<"tx1", 1>>

\* C20: a new-address request calls getnewaddress with [''] when the body
\* has no account or an empty one and with [a] for a non-empty account a;
\* either way a successful response is {success: true, data: {address}} with
\* status 200.
C20_OptionalAccount ==
  \A s \in Slots :
    (pc[s] # "idle" /\ handled[s] = 1 /\ H(s) = "getNewAddress") =>
      /\ Len(sent[s]) = 1 /\ Env(s).method = "getnewaddress"
      /\ FalsyStr(req[s].body, "account") => Env(s).params = <<"">>
      /\ ~FalsyStr(req[s].body, "account") => Env(s).params = <<req[s].body["account"]>>
      /\ (pc[s] = "done" /\ raised[s] = <<>>)
           => /\ Len(res[s]) = 1 /\ res[s][1].status = 200
              /\ res[s][1].body =
                   [success |-> TRUE, data |-> [address |-> reply[s].data.result]]

\* an address was created for a named account while one was created for the
\* default account
C20_Witness ==
  /\ Succeeded(1) /\ H(1) = "getNewAddress"
  /\ req[1].body = ("account" :> "test-account")
  /\ Env(1).params = <<"test-account">> /\ Data(1) = [address |-> "r2"]
  /\ Succeeded(2) /\ req[2].body = Empty /\ Env(2).params = <<"">>

\* C21: nothing but the correlation counter outlives a request: where no
\* request is being handled everything equals its initial value, and the
\* response to a request depends on the request and on the remote response
\* to its own call only; two requests that are equal and whose calls were
\* answered alike end alike, whatever the counter was.
C21_NoStateButCounter ==
  /\ \A s \in Slots :
       pc[s] = "idle" =>
         /\ req[s] = NoRequest /\ gate[s] = "none" /\ handled[s] = 0
         /\ sent[s] = <<>> /\ reply[s] = NoReply
         /\ raised[s] = <<>> /\ res[s] = <<>> /\ nextArg[s] = <<>>
  /\ \A s \in Slots : \A t \in Slots :
       (/\ pc[s] = "done" /\ pc[t] = "done" /\ s # t
        /\ req[s].path = req[t].path /\ req[s] = req[t]
        /\ reply[s].kind = reply[t].kind /\ reply[s] = reply[t])
       => res[s] = res[t] /\ nextArg[s] = nextArg[t]

\* two requests made two calls and are over: only the counter shows it
C21_Witness ==
  /\ \A s \in Slots : pc[s] = "idle" /\ res[s] = <<>> /\ req[s] = NoRequest
  /\ requestId = 2 /\ issued = <<1, 2>>

\* the informational handlers
InfoHandlers == {"getBlockchainInfo", "getNetworkInfo", "getMiningInfo"}

\* slot s holds an informational request that passed the gate
InfoRequest(s) ==
  pc[s] # "idle" /\ handled[s] = 1 /\ req[s].verb = "GET" /\ H(s) \in InfoHandlers

\* C22: an informational request (blockchain/info, network/info,
\* mining/info) whose call is answered with a result is answered with status
\* 200 and {success: true, data: <that result>}, the first time and every
\* time after (whatever the counter has reached); handling it advances the
\* counter by one and, once it is over, leaves nothing else changed.
C22_InfoShapeStable ==
  /\ [](\A s \in Slots :
          (InfoRequest(s) /\ pc[s] = "done" /\ IsResult(reply[s])) =>
            /\ res[s] = <<StatusJson(200, [success |-> TRUE,
                                           data |-> reply[s].data.result])>>
            /\ nextArg[s] = <<>> /\ raised[s] = <<>>)
  /\ [][\A s \in Slots :
          /\ (pc[s] = "idle" /\ pc'[s] # "idle" /\ InfoRequest(s)')
               => /\ requestId' = requestId + 1
                  /\ \A t \in Slots \ {s} :
                       /\ pc'[t] = pc[t] /\ req'[t] = req[t] /\ sent'[t] = sent[t]
                       /\ res'[t] = res[t] /\ nextArg'[t] = nextArg[t]
          /\ (InfoRequest(s) /\ pc[s] = "await" /\ pc'[s] = "done")
               => requestId' = requestId
          /\ (InfoRequest(s) /\ pc'[s] = "idle")
               => /\ requestId' = requestId
                  /\ req'[s] = NoRequest /\ sent'[s] = <<>> /\ reply'[s] = NoReply
                  /\ res'[s] = <<>> /\ nextArg'[s] = <<>> /\ raised'[s] = <<>>
                  /\ handled'[s] = 0 /\ gate'[s] = "none"]_vars

\* mining information was answered from the result of the second call of
\* the process, the first being over
C22_Witness ==
  /\ InfoRequest(1) /\ H(1) = "getMiningInfo" /\ Succeeded(1)
  /\ Env(1).id = 2 /\ pc[2] = "idle" /\ issued = <<1, 2>>
  /\ res[1][1].body = [success |-> TRUE, data |-> "r2"]

\* slot s holds a send that passed the gate
SendRequest(s) == pc[s] # "idle" /\ handled[s] = 1 /\ H(s) = "sendToAddress"

\* C23: for one send request sendtoaddress is posted at most once, and a
\* send that ends without a response from the transport ends in the failure
\* path with the same failure whether or not the remote node ran it: no
\* response is written and the failure forwarded holds the transport's
\* message only.
C23_SendAtMostOnceNoIdempotency ==
  \A s \in Slots :
    SendRequest(s) =>
      /\ Len(sent[s]) <= 1
      /\ \A i \in DOMAIN sent[s] : sent[s][i].method = "sendtoaddress"
      /\ (pc[s] = "done" /\ reply[s].kind = "failure")
           => /\ res[s] = <<>>
              /\ raised[s] = <<Error(<<"Network Error: ">> \o reply[s].message)>>
              /\ nextArg[s] = raised[s]
              /\ Len(sent[s]) = 1

\* the remote node ran the send, no response came back and the request
\* ended in the failure path
C23_Witness ==
  /\ SendRequest(1) /\ pc[1] = "done" /\ executed[1]
  /\ reply[1].kind = "failure" /\ res[1] = <<>>
  /\ StartsWith(nextArg[1][1].message, "Network Error: ")
  /\ Env(1).params = <<"t1addr", 1, "memo">>

\* the same request ended the same way without the remote node having run
\* the send
C23_Twin ==
  /\ SendRequest(1) /\ pc[1] = "done" /\ ~executed[1]
  /\ reply[1].kind = "failure" /\ res[1] = <<>>
  /\ StartsWith(nextArg[1][1].message, "Network Error: ")
  /\ Env(1).params = <<"t1addr", 1, "memo">>

\* the number of terminal actions of the request in slot s: responses
\* written and failures forwarded
Endings(s) == Len(res[s]) + Len(nextArg[s])

\* C24: when the transport settles every post, every handler invocation
\* ends: no invocation stays in its await for ever, an invocation that has
\* left its await or never entered one has written a response or forwarded
\* a failure, and a call that timed out ends in the failure path, never in a
\* success response.
C24_HandlerTerminates ==
  /\ \A s \in Slots : []<>(pc[s] # "await")
  /\ [](\A s \in Slots :
          /\ (pc[s] = "await") => (handled[s] = 1 /\ Endings(s) = 0)
          /\ (pc[s] = "done" /\ handled[s] = 1) => Endings(s) = 1
          /\ (pc[s] = "done" /\ reply[s].kind = "failure")
               => /\ res[s] = <<>> /\ Len(nextArg[s]) = 1
                  /\ StartsWith(nextArg[s][1].message, "Network Error: "))

\* the count of blocks was asked for, the post timed out and the failure
\* went to next
C24_Witness ==
  /\ pc[1] = "done" /\ H(1) = "getBlockCount" /\ handled[1] = 1
  /\ reply[1] = TransportFailure(<<"timeout of 30000ms exceeded">>)
  /\ res[1] = <<>> /\ Endings(1) = 1
  /\ nextArg[1][1].message = <<"Network Error: ", "timeout of 30000ms exceeded">>

\* C25: concurrently handled requests do not interfere: whatever the other
\* requests are doing and in whatever order the answers arrive, a request
\* whose call was answered with a result answers 200 with data holding that
\* result, a request whose call failed forwards the failure of its own call,
\* and the step that settles one request changes nothing of another.
C25_NoInterference ==
  /\ [](\A s \in Slots :
          (pc[s] = "done" /\ reply[s].kind # "none") =>
            IF IsResult(reply[s])
              THEN /\ Succeeded(s) /\ nextArg[s] = <<>>
                   /\ LET h == H(s)
                      IN IF h \in VerbatimHandlers
                           THEN Data(s) = reply[s].data.result
                           ELSE Data(s)[ResultField(h)] = reply[s].data.result
              ELSE /\ res[s] = <<>>
                   /\ nextArg[s] = <<RpcCallOutcome(reply[s]).error>>)
  /\ [][\A s \in Slots :
          (pc[s] = "await" /\ pc'[s] = "done") =>
            \A t \in Slots \ {s} :
              /\ pc'[t] = pc[t] /\ req'[t] = req[t] /\ sent'[t] = sent[t]
              /\ reply'[t] = reply[t] /\ raised'[t] = raised[t]
              /\ res'[t] = res[t] /\ nextArg'[t] = nextArg[t]]_vars

\* of two calls in flight the one posted second failed, and the one posted
\* first was answered with a result
C25_Witness ==
  /\ Failed(2) /\ reply[2].kind = "failure" /\ res[2] = <<>>
  /\ Succeeded(1) /\ H(1) = "getBalance" /\ reply[1].data.result = "r2"
  /\ Data(1).balance = "r2"
  /\ Env(1).id = 1 /\ Env(2).id = 2

\* the query parameter name of the request in slot s is supplied and parses
\* to 0
SuppliesZero(s, name) ==
  /\ ~Omits(s, name)
  /\ ~ParseInt(req[s].query[name]).nan /\ ParseInt(req[s].query[name]).val = 0

C27_HeightRequiredZeroAccepted ==
  \A s \in Slots :
    (pc[s] # "idle" /\ handled[s] = 1
     /\ req[s].path = "/blockchain/blockhash/:height" /\ H(s) = "getBlockHash") =>
      LET height == ParseIntOf(req[s].params, "height")
      IN IF height.nan
           THEN /\ pc[s] = "done" /\ sent[s] = <<>> /\ reply[s] = NoReply
                /\ Len(res[s]) = 1 /\ IsError400(res[s][1]) /\ nextArg[s] = <<>>
           ELSE /\ Len(sent[s]) = 1
                /\ Env(s).method = "getblockhash" /\ Env(s).params = <<height.val>>
                /\ Succeeded(s)
                     => Data(s) = [height |-> height.val,
                                   blockhash |-> reply[s].data.result]

\* the hash of the block at height 0 was asked for and answered
C27_Witness ==
  /\ Succeeded(1) /\ H(1) = "getBlockHash" /\ req[1].params = ("height" :> <<"0">>)
  /\ Env(1).params = <<0>> /\ Data(1) = [height |-> 0, blockhash |-> "r1"]

\* C28: the correlation counter starts at 0 and counts the rpcCalls: the
\* n-th call carries id n, a call advances the counter by exactly 1 before
\* its envelope is posted, the counter stays where it is when the call is
\* settled (by a result or by a failure), and a request stopped or rejected
\* without a call leaves it unchanged.
C28_CounterCountsCalls ==
  /\ requestId = 0
  /\ [](/\ Len(issued) = requestId
        /\ \A n \in DOMAIN issued : issued[n] = n)
  /\ [][\A s \in Slots :
          /\ (pc[s] = "idle" /\ pc'[s] = "await")
               => /\ requestId' = requestId + 1
                  /\ Len(sent'[s]) = 1 /\ sent'[s][1].id = requestId'
                  /\ issued' = Append(issued, requestId')
          /\ (pc[s] = "idle" /\ pc'[s] = "done")
               => requestId' = requestId /\ sent'[s] = <<>> /\ issued' = issued
          /\ (pc[s] = "await" /\ pc'[s] = "done")
               => requestId' = requestId /\ issued' = issued
          /\ (pc[s] = "done" /\ pc'[s] = "idle")
               => requestId' = requestId /\ issued' = issued]_vars

\* the first call failed and a request was then rejected with 400: the
\* counter is 1
C28_Witness ==
  /\ Failed(2) /\ Env(2).id = 1 /\ reply[2].kind = "failure"
  /\ pc[1] = "done" /\ H(1) = "getTransaction" /\ LocallyRejected(1)
  /\ sent[1] = <<>> /\ requestId = 1 /\ issued = <<1>>

\* the terminal actions of the invocation in slot s
WroteSuccess(s) ==
  /\ Len(res[s]) = 1 /\ res[s][1].status = 200 /\ res[s][1].body.success = TRUE
  /\ nextArg[s] = <<>>

WroteError400(s) ==
  Len(res[s]) = 1 /\ IsError400(res[s][1]) /\ nextArg[s] = <<>>

ForwardedFailure(s) == res[s] = <<>> /\ Len(nextArg[s]) = 1

\* C29: a handler invocation performs exactly one terminal action: it
\* writes one 200 success response, or writes one 400 error response, or
\* forwards one failure to next; it never writes two responses and never
\* both writes and forwards, and once it has acted nothing more is written
\* or forwarded for the request.
C29_OneTerminalAction ==
  /\ [](\A s \in Slots :
          (pc[s] # "idle" /\ handled[s] = 1) =>
            /\ Len(res[s]) <= 1 /\ Len(nextArg[s]) <= 1
            /\ ~(res[s] # <<>> /\ nextArg[s] # <<>>)
            /\ pc[s] = "done"
                 => \/ WroteSuccess(s) /\ ~WroteError400(s) /\ ~ForwardedFailure(s)
                    \/ WroteError400(s) /\ ~WroteSuccess(s) /\ ~ForwardedFailure(s)
                    \/ ForwardedFailure(s) /\ ~WroteSuccess(s) /\ ~WroteError400(s))
  /\ [][\A s \in Slots :
          (pc[s] = "done" /\ pc'[s] = "done")
            => res'[s] = res[s] /\ nextArg'[s] = nextArg[s]]_vars

\* a raw transaction was asked for, the node answered 500 and the failure
\* was forwarded without a response
C29_Witness ==
  /\ pc[1] = "done" /\ handled[1] = 1 /\ H(1) = "getRawTransaction"
  /\ reply[1].kind = "response" /\ reply[1].status = 500
  /\ ForwardedFailure(1) /\ ~WroteSuccess(1) /\ ~WroteError400(1)

\* the texts the catch clause of rpcCall puts in front of a failure
Wrappers == {"ZCash RPC Error: ", "Network Error: "}

\* C30: a failure that leaves rpcCall was wrapped exactly once by the catch
\* clause: its text begins with 'ZCash RPC Error: ' when the failure caught
\* carried an HTTP response (a non-2xx status) and with 'Network Error: '
\* otherwise; the 'RPC Error: <message> (Code: <code>)' thrown in the try
\* block for an error field under a 2xx status is not what the caller sees,
\* it comes out behind 'Network Error: '.
C30_WrappedOnce ==
  \A s \in Slots :
    (pc[s] = "done" /\ raised[s] # <<>>) =>
      LET m == raised[s][1].message
          rejected == /\ reply[s].kind = "response"
                      /\ ~(reply[s].status >= 200 /\ reply[s].status < 300)
      IN /\ Len(raised[s]) = 1 /\ raised[s][1].response = <<>>
         /\ m[1] \in Wrappers
         /\ \A i \in 2..Len(m) : m[i] \notin Wrappers
         /\ (m[1] = "ZCash RPC Error: ") <=> rejected
         /\ (m[1] = "Network Error: ") <=> ~rejected
         /\ (HasErrorField(reply[s]) /\ ~rejected) =>
              m = <<"Network Error: ", "RPC Error: ", reply[s].data.error[1].message,
                    " (Code: ">> \o ToStr(reply[s].data.error[1].code) \o <<")">>

\* the node answered 200 with an error field and the caller saw the failure
\* of the try block behind 'Network Error: '
C30_Witness ==
  /\ Failed(1) /\ H(1) = "getWalletInfo"
  /\ reply[1].kind = "response" /\ reply[1].status = 200 /\ HasErrorField(reply[1])
  /\ raised[1][1].message[1] = "Network Error: "
  /\ raised[1][1].message[2] = "RPC Error: "
  /\ nextArg[1] = raised[1]

====
